---- MODULE Spec2Model ----
(***************************************************************************)
(* Model of the WLX212 admin-GUI scraping exporter (src/main.go).          *)
(*                                                                         *)
(* Three specifications share this module:                                 *)
(*   SpecRetry   - retryImmediately applied to a scripted operation        *)
(*   SpecExtract - extractApListDataFromScriptText applied to a payload    *)
(*   Spec        - one HTTP request: handler, reconstructAllApData, the    *)
(*                 per-AP goroutines and the unbuffered detail channel     *)
(*                                                                         *)
(* src/main.go holds two revisions of the program one after the other; the  *)
(* model follows the first (lines 1-271), the one with retryImmediately    *)
(* and reconstructAllApData.                                                *)
(*                                                                         *)
(* Strings are sequences of one-character strings.  Go pointers are        *)
(* records [nil |-> TRUE] or [nil |-> FALSE, val |-> v]; Go errors are     *)
(* NoErr or a string naming the error.                                     *)
(***************************************************************************)
EXTENDS Integers, Sequences, FiniteSets, TLC

VARIABLES
    \* ---- SpecRetry
    rpc,            \* "idle" | "call" | "returned"
    rMax,           \* maxRetryCount handed to retryImmediately
    rOracle,        \* outcome of the 1st, 2nd, ... invocation of f
    rOut,           \* what retryImmediately did
    \* ---- SpecExtract
    epc,            \* "idle" | "call" | "returned"
    eScript,        \* the script text handed to the extractor
    eOut,           \* what extractApListDataFromScriptText did
    \* ---- Spec (one request)
    endpoint,       \* "aplist" | "metrics"
    loopvarShared,  \* TRUE: the build shares `ap` between loop iterations
    pc,             \* position of the handler goroutine
    invOutcome,     \* what the inventory retryImmediately did
    aps,            \* *aps: the inventory
    retErr,         \* error returned by reconstructAllApData
    loopAp,         \* index of the summary the loop variable `ap` holds
    taskpc,         \* position of each per-AP goroutine
    taskAp,         \* index of the summary each goroutine read from `ap`
    taskOutcome,    \* what each goroutine's retryImmediately did
    taskDetail,     \* the detail each goroutine offers on detailChan
    recvIdx,        \* i of the receiving loop
    recvFrom,       \* recvFrom[i]: goroutine whose detail filled slot i
    reconstructedAps,
    log,            \* slog entries written so far
    response        \* what the handler answered

retryVars   == <<rpc, rMax, rOracle, rOut>>
extractVars == <<epc, eScript, eOut>>
requestVars == <<endpoint, loopvarShared, pc, invOutcome, aps, retErr, loopAp,
                 taskpc, taskAp, taskOutcome, taskDetail, recvIdx, recvFrom,
                 reconstructedAps, log, response>>
vars == <<retryVars, extractVars, requestVars>>

----------------------------------------------------------------------------
(* Bounds *)

MaxAttempts == 3     \* largest maxRetryCount tried in SpecRetry
MaxRows     == 2     \* largest number of inner arrays in SpecExtract
MaxAps      == 3     \* largest inventory in Spec

(* Program constants *)

InventoryAttempts == 3
DetailAttempts    == 5
HostNameIndex     == 7
ConnectionsIndex  == 10
IpAddressIndex    == 13

----------------------------------------------------------------------------
(* Go values *)

NoErr  == "nil"
NilPtr == [nil |-> TRUE]
Ptr(v) == [nil |-> FALSE, val |-> v]

Ok(v)      == [kind |-> "return", result |-> v, err |-> NoErr]
Fail(v, e) == [kind |-> "return", result |-> v, err |-> e]
Panic(why) == [kind |-> "panic", why |-> why]

Max2(a, b) == IF a >= b THEN a ELSE b

----------------------------------------------------------------------------
(* retryImmediately, main.go:17-26.  f is the script of the operation: f[n] *)
(* is what its n-th invocation does.  The `err` assigned inside the loop    *)
(* belongs to the loop body ("result, err := f()"), so the function-level   *)
(* err that line 25 returns still holds its zero value.                     *)

RECURSIVE RetryLoop(_, _, _, _)
RetryLoop(f, maxRetryCount, i, err) ==
    IF i < maxRetryCount
    THEN LET o == f[i + 1] IN
         IF o.kind = "panic"
         THEN [kind |-> "panic", why |-> o.why, invoked |-> i + 1]
         ELSE IF o.err = NoErr
              THEN [kind |-> "return", result |-> o.result, err |-> NoErr,
                    retried |-> i, invoked |-> i + 1]
              ELSE RetryLoop(f, maxRetryCount, i + 1, err)
    ELSE [kind |-> "return", result |-> NilPtr, err |-> err,
          retried |-> maxRetryCount, invoked |-> i]

RECURSIVE RetryLoopCountsFrom1(_, _, _, _)
RetryLoopCountsFrom1(f, maxRetryCount, i, err) ==
    IF i < maxRetryCount
    THEN LET o == f[i + 1] IN
         IF o.kind = "panic"
         THEN [kind |-> "panic", why |-> o.why, invoked |-> i + 1]
         ELSE IF o.err = NoErr
              THEN [kind |-> "return", result |-> o.result, err |-> NoErr,
                    retried |-> i + 1, invoked |-> i + 1]
              ELSE RetryLoopCountsFrom1(f, maxRetryCount, i + 1, err)
    ELSE [kind |-> "return", result |-> NilPtr, err |-> err,
          retried |-> maxRetryCount, invoked |-> i]

retryImmediately_OffByOne(f, maxRetryCount) ==
    RetryLoopCountsFrom1(f, maxRetryCount, 0, NoErr)

retryImmediately(f, maxRetryCount) == RetryLoop(f, maxRetryCount, 0, NoErr)

----------------------------------------------------------------------------
(* Strings and numbers *)

Digits == <<"0", "1", "2", "3", "4", "5", "6", "7", "8", "9">>

IsDigit(c) == \E d \in 1..10 : Digits[d] = c

DigitVal(c) == (CHOOSE d \in 1..10 : Digits[d] = c) - 1

\* regexp "[0-9]+" FindString, main.go:89: the leftmost longest run of digits
RECURSIVE DigitRun(_, _)
DigitRun(s, from) ==
    IF from > Len(s) \/ ~IsDigit(s[from]) THEN <<>>
    ELSE <<s[from]>> \o DigitRun(s, from + 1)

RECURSIVE FirstDigitAt(_, _)
FirstDigitAt(s, from) ==
    IF from > Len(s) THEN 0
    ELSE IF IsDigit(s[from]) THEN from
    ELSE FirstDigitAt(s, from + 1)

FindString(s) ==
    LET at == FirstDigitAt(s, 1) IN IF at = 0 THEN <<>> ELSE DigitRun(s, at)

RECURSIVE DecimalValue(_, _)
DecimalValue(ds, acc) ==
    IF ds = <<>> THEN acc
    ELSE DecimalValue(Tail(ds), acc * 10 + DigitVal(Head(ds)))

\* strconv.Atoi on a string of digits (or the empty string)
Atoi(ds) ==
    IF ds = <<>> THEN [val |-> 0, err |-> "atoi: invalid syntax"]
    ELSE [val |-> DecimalValue(ds, 0), err |-> NoErr]

----------------------------------------------------------------------------
(* JSON values as json.Unmarshal stores them in an interface{} *)

JString(s) == [t |-> "string", s |-> s]
JNumber(n) == [t |-> "float64", n |-> n]
JNull      == [t |-> "nil"]

\* A script text "var apListData=[row,row,...];": its inner arrays, whether
\* the outer array ends in ",]" and whether the text is broken JSON anyway.
ScriptText(rows, trailingComma, broken) ==
    [rows |-> rows, trailingComma |-> trailingComma, broken |-> broken]

\* lastElementTrailingComma.ReplaceAll(..., "]"), main.go:90,94-98
ReplaceTrailingComma(script) == [script EXCEPT !.trailingComma = FALSE]

\* json.Unmarshal into [][]interface{}, main.go:100
Unmarshal(text) ==
    IF text.broken \/ text.trailingComma
    THEN [data |-> <<>>, err |-> "json: syntax error"]
    ELSE [data |-> text.rows, err |-> NoErr]

\* apData[k].(string): index k of a Go slice is element k+1 of the sequence
IndexString(apData, k) ==
    IF k + 1 > Len(apData) THEN Panic("index out of range")
    ELSE IF apData[k + 1].t # "string" THEN Panic("interface conversion")
    ELSE Ok(apData[k + 1].s)

\* One iteration of the loop of main.go:106-119
ExtractOne(apData) ==
    LET hostName == IndexString(apData, HostNameIndex)
        connText == IndexString(apData, ConnectionsIndex)
        ipAddress == IndexString(apData, IpAddressIndex)
    IN  IF hostName.kind = "panic" THEN hostName
        ELSE IF connText.kind = "panic" THEN connText
        ELSE LET activeConnections == Atoi(FindString(connText.result)) IN
             IF activeConnections.err # NoErr
             THEN Fail(<<>>, activeConnections.err)
             ELSE IF ipAddress.kind = "panic" THEN ipAddress
             ELSE Ok([HostName |-> hostName.result,
                      ActiveConnections |-> activeConnections.val,
                      IpAddress |-> ipAddress.result])

RECURSIVE ExtractLoop(_, _, _)
ExtractLoop(data, i, acc) ==
    IF i > Len(data) THEN Ok(acc)
    ELSE LET one == ExtractOne(data[i]) IN
         IF one.kind = "panic" THEN one
         ELSE IF one.err # NoErr THEN Fail(<<>>, one.err)
         ELSE ExtractLoop(data, i + 1, Append(acc, one.result))

\* main.go:92-122
extractApListDataFromScriptText(script) ==
    LET parsed == Unmarshal(ReplaceTrailingComma(script)) IN
    IF parsed.err # NoErr THEN Fail(<<>>, parsed.err)
    ELSE ExtractLoop(parsed.data, 1, <<>>)

----------------------------------------------------------------------------
(* SpecRetry: retryImmediately on a scripted operation *)

OpOutcomes ==
    {Ok(Ptr(v)) : v \in {1, 2}} \cup {Fail(NilPtr, e) : e \in {"e1", "e2"}}
        \cup {Panic("f panicked")}

RetryIdle == rpc = "idle" /\ rMax = 0 /\ rOracle = <<>> /\ rOut = [kind |-> "none"]

ExtractIdle == epc = "idle" /\ eScript = <<>> /\ eOut = [kind |-> "none"]

RequestIdle ==
    /\ endpoint = "none" /\ loopvarShared = FALSE /\ pc = "idle"
    /\ invOutcome = [kind |-> "none"] /\ aps = <<>> /\ retErr = NoErr
    /\ loopAp = 0 /\ taskpc = <<>> /\ taskAp = <<>> /\ taskOutcome = <<>>
    /\ taskDetail = <<>> /\ recvIdx = 1 /\ recvFrom = <<>>
    /\ reconstructedAps = <<>> /\ log = {} /\ response = [status |-> 0]

InitRetry ==
    /\ rpc = "call"
    /\ rMax \in -1..MaxAttempts
    /\ rOracle \in [1..MaxAttempts -> OpOutcomes]
    /\ rOut = [kind |-> "none"]
    /\ ExtractIdle /\ RequestIdle

RetryCall ==
    /\ rpc = "call"
    /\ rOut' = retryImmediately(rOracle, rMax)
    /\ rpc' = "returned"
    /\ UNCHANGED <<rMax, rOracle, extractVars, requestVars>>

NextRetry == RetryCall

SpecRetry == InitRetry /\ [][NextRetry]_vars

\* the n-th invocation of the scripted operation returns an error
FailsAt(n) == rOracle[n].kind = "return" /\ rOracle[n].err # NoErr

\* the n-th invocation of the scripted operation returns a result
SucceedsAt(n) == rOracle[n].kind = "return" /\ rOracle[n].err = NoErr

----------------------------------------------------------------------------
(* SpecExtract: extractApListDataFromScriptText on a script text *)

Filler == JString(<<"_">>)

HostName(i) == <<"a", "p", "-", "0", Digits[i + 1]>>

IpAddress(i) == <<"1", "0", ".", "0", ".", "0", ".", Digits[i + 1]>>

ConnText(i) == <<Digits[i + 1], "/", "1", "0", "0">>

\* An inner array of `len` values with the given values at indices 7, 10, 13
MkRow(len, v7, v10, v13) ==
    [k \in 1..len |->
        IF k = HostNameIndex + 1 THEN v7
        ELSE IF k = ConnectionsIndex + 1 THEN v10
        ELSE IF k = IpAddressIndex + 1 THEN v13
        ELSE Filler]

RowLens == {HostNameIndex, HostNameIndex + 1, ConnectionsIndex + 1,
            IpAddressIndex + 1}

Rows ==
    {MkRow(len, v7, v10, v13) :
        len \in RowLens,
        v7 \in {JString(HostName(1)), JNumber(7)},
        v10 \in {JString(ConnText(9)), Filler, JNumber(9)},
        v13 \in {JString(IpAddress(1)), JNull}}

RowSeqs == UNION {[1..n -> Rows] : n \in 0..MaxRows}

InitExtract ==
    /\ epc = "call"
    /\ eScript \in {ScriptText(rows, tc, broken) :
                        rows \in RowSeqs, tc \in BOOLEAN, broken \in BOOLEAN}
    /\ eOut = [kind |-> "none"]
    /\ RetryIdle /\ RequestIdle

ExtractCall ==
    /\ epc = "call"
    /\ eOut' = extractApListDataFromScriptText(eScript)
    /\ epc' = "returned"
    /\ UNCHANGED <<eScript, retryVars, requestVars>>

NextExtract == ExtractCall

SpecExtract == InitExtract /\ [][NextExtract]_vars

\* index k of the inner array is missing or does not hold a string
NotAString(apData, k) == k + 1 > Len(apData) \/ apData[k + 1].t # "string"

----------------------------------------------------------------------------
(* Spec: one request against /aplist or /metrics *)

\* A well-formed inner array for the i-th AP of the controller
GoodRow(i) ==
    MkRow(IpAddressIndex + 1, JString(HostName(i)), JString(ConnText(i)),
          JString(IpAddress(i)))

\* What fetchControllerGUIHtml and html.Parse can hand to the handler: a
\* transport error, a page without the script, or a page with a script text.
ControllerPages ==
    {[kind |-> "transport error"], [kind |-> "no script"]}
        \cup {[kind |-> "script",
               script |-> ScriptText([i \in 1..n |-> GoodRow(i)], n > 1, FALSE)] :
                  n \in 0..MaxAps}
        \cup {[kind |-> "script",
               script |-> ScriptText(<<MkRow(IpAddressIndex + 1, JNumber(7),
                                             JString(ConnText(1)),
                                             JString(IpAddress(1)))>>,
                                     FALSE, FALSE)],
              [kind |-> "script",
               script |-> ScriptText(<<MkRow(IpAddressIndex + 1,
                                             JString(HostName(1)), Filler,
                                             JString(IpAddress(1)))>>,
                                     FALSE, FALSE)]}

\* main.go:124-142
fetchAllAccessPointsFromController(page) ==
    IF page.kind = "transport error" THEN Fail(<<>>, "transport error")
    ELSE IF page.kind = "no script"
         THEN Fail(<<>>, "could not find script node with apListData")
         ELSE extractApListDataFromScriptText(page.script)

\* The closure of main.go:150-153: it returns &aps, err
InventoryAttempt(page) ==
    LET r == fetchAllAccessPointsFromController(page) IN
    IF r.kind = "panic" THEN r ELSE [r EXCEPT !.result = Ptr(r.result)]

ZeroDetail == [Active5GHzConnections |-> 0, Active2_4GHzConnections |-> 0]

\* The outcomes of one detail scrape of an AP.  main.go:144-146 returns the
\* zero detail and no error; the failure is the outcome that the caller's
\* retry budget and error branch (main.go:166-176) are written against.
fetchApDetailFromApGUI(ap) ==
    {Ok(ZeroDetail), Fail(ZeroDetail, "detail fetch failed")}

\* The closure of main.go:167-170: it returns &detail, err
DetailAttempt(o) == [o EXCEPT !.result = Ptr(o.result)]

\* The struct of main.go:45-48 and its literal at main.go:186-189
ReconstructedApData(ap, detail) ==
    [HostName |-> ap.HostName,
     ActiveConnections |-> ap.ActiveConnections,
     IpAddress |-> ap.IpAddress,
     Active5GHzConnections |-> detail.Active5GHzConnections,
     Active2_4GHzConnections |-> detail.Active2_4GHzConnections]

ZeroAp == [HostName |-> <<>>, ActiveConnections |-> 0, IpAddress |-> <<>>]

LogEntry(level, msg, host) == [level |-> level, msg |-> msg, host |-> host]

\* What the goroutine of main.go:165-181 does once retryImmediately has
\* returned r: the entries it logs and how it ends.  *detail is a nil
\* dereference when r.result is nil.
TaskSendsZeroOnNil(r, host) ==
    IF r.err # NoErr
    THEN [next |-> "returned", detail |-> ZeroDetail,
          logs |-> {LogEntry("WARN", "error fetching detail", host)}]
    ELSE [next |-> "sending",
          detail |-> IF r.result.nil THEN ZeroDetail ELSE r.result.val,
          logs |-> IF r.retried > 0
                   THEN {LogEntry("INFO", "retried fetching detail", host)}
                   ELSE {}]

TaskAfterRetry(r, host) ==
    IF r.err # NoErr
    THEN [next |-> "returned", detail |-> ZeroDetail,
          logs |-> {LogEntry("WARN", "error fetching detail", host)}]
    ELSE LET logs == IF r.retried > 0
                     THEN {LogEntry("INFO", "retried fetching detail", host)}
                     ELSE {}
         IN  IF r.result.nil
             THEN [next |-> "panicked", detail |-> ZeroDetail, logs |-> logs]
             ELSE [next |-> "sending", detail |-> r.result.val, logs |-> logs]

\* The line metrics writes for one entry, main.go:226
MetricsLine(ap) ==
    [name |-> "ap_active_connections",
     labels |-> [hostname |-> ap.HostName],
     value |-> ap.ActiveConnections]

Init ==
    /\ endpoint \in {"aplist", "metrics"}
    /\ loopvarShared \in BOOLEAN
    /\ pc = "handler"
    /\ invOutcome = [kind |-> "none"]
    /\ aps = <<>> /\ retErr = NoErr /\ loopAp = 0
    /\ taskpc = <<>> /\ taskAp = <<>> /\ taskOutcome = <<>> /\ taskDetail = <<>>
    /\ recvIdx = 1 /\ recvFrom = <<>> /\ reconstructedAps = <<>>
    /\ log = {} /\ response = [status |-> 0]
    /\ RetryIdle /\ ExtractIdle

\* main.go:149-163 and 184: the inventory, retried; the channel; the slice
FetchInventory ==
    /\ pc = "handler"
    /\ \E pages \in [1..InventoryAttempts -> ControllerPages] :
        LET f == [n \in 1..InventoryAttempts |-> InventoryAttempt(pages[n])]
            r == retryImmediately(f, InventoryAttempts)
            allFailed == \A n \in 1..InventoryAttempts :
                            f[n].kind = "return" /\ f[n].err # NoErr
            n == IF r.kind = "return" /\ r.err = NoErr /\ ~r.result.nil
                 THEN Len(r.result.val) ELSE 0
        IN  /\ invOutcome' = [kind |-> r.kind, allFailed |-> allFailed]
            /\ IF r.kind = "panic"
               THEN /\ pc' = "panicked"
                    /\ UNCHANGED <<aps, retErr, log>>
               ELSE IF r.err # NoErr
               THEN /\ pc' = "returned"
                    /\ retErr' = r.err
                    /\ UNCHANGED <<aps, log>>
               ELSE /\ log' = IF r.retried > 0
                              THEN log \cup {LogEntry("INFO",
                                       "retried fetching AP info", <<>>)}
                              ELSE log
                    /\ retErr' = NoErr
                    /\ IF r.result.nil
                       THEN pc' = "panicked" /\ UNCHANGED aps
                       ELSE /\ aps' = r.result.val
                            /\ pc' = IF n = 0 THEN "collect" ELSE "dispatch"
            /\ taskpc' = [t \in 1..n |-> "unborn"]
            /\ taskAp' = [t \in 1..n |-> 0]
            /\ taskOutcome' = [t \in 1..n |-> "none"]
            /\ taskDetail' = [t \in 1..n |-> ZeroDetail]
            /\ recvFrom' = [t \in 1..n |-> 0]
            /\ reconstructedAps' =
                  [t \in 1..n |-> ReconstructedApData(ZeroAp, ZeroDetail)]
    /\ UNCHANGED <<endpoint, loopvarShared, loopAp, recvIdx, response,
                   retryVars, extractVars>>

\* main.go:164-165, 181: one iteration of the loop that starts the goroutines
Dispatch ==
    /\ pc = "dispatch"
    /\ loopAp' = loopAp + 1
    /\ taskpc' = [taskpc EXCEPT ![loopAp + 1] = "spawned"]
    /\ pc' = IF loopAp + 1 = Len(aps) THEN "collect" ELSE "dispatch"
    /\ UNCHANGED <<endpoint, loopvarShared, invOutcome, aps, retErr, taskAp,
                   taskOutcome, taskDetail, recvIdx, recvFrom,
                   reconstructedAps, log, response, retryVars, extractVars>>

\* main.go:165-180: a goroutine up to its send on detailChan.  With a shared
\* loop variable the goroutine reads whatever summary `ap` holds by then.
TaskRun(t) ==
    /\ pc \in {"dispatch", "collect"}
    /\ taskpc[t] = "spawned"
    /\ LET a == IF loopvarShared THEN loopAp ELSE t IN
       \E o \in [1..DetailAttempts -> fetchApDetailFromApGUI(aps[a])] :
        LET f == [n \in 1..DetailAttempts |-> DetailAttempt(o[n])]
            r == retryImmediately(f, DetailAttempts)
            after == TaskAfterRetry(r, aps[a].HostName)
        IN  /\ taskAp' = [taskAp EXCEPT ![t] = a]
            /\ taskOutcome' = [taskOutcome EXCEPT ![t] =
                  IF \A n \in 1..DetailAttempts : f[n].err # NoErr
                  THEN "exhausted" ELSE "fetched"]
            /\ log' = log \cup after.logs
            /\ taskpc' = [taskpc EXCEPT ![t] = after.next]
            /\ taskDetail' = [taskDetail EXCEPT ![t] = after.detail]
            \* an unrecovered panic in a goroutine ends the process
            /\ pc' = IF after.next = "panicked" THEN "crashed" ELSE pc
    /\ UNCHANGED <<endpoint, loopvarShared, invOutcome, aps, retErr, loopAp,
                   recvIdx, recvFrom, reconstructedAps, response,
                   retryVars, extractVars>>

\* main.go:185-190: the receive of iteration recvIdx meets the send of t
Receive(t) ==
    /\ pc = "collect"
    /\ recvIdx <= Len(aps)
    /\ taskpc[t] = "sending"
    /\ reconstructedAps' = [reconstructedAps EXCEPT ![recvIdx] =
                              ReconstructedApData(aps[recvIdx], taskDetail[t])]
    /\ recvFrom' = [recvFrom EXCEPT ![recvIdx] = t]
    /\ taskpc' = [taskpc EXCEPT ![t] = "done"]
    /\ recvIdx' = recvIdx + 1
    /\ UNCHANGED <<endpoint, loopvarShared, pc, invOutcome, aps, retErr,
                   loopAp, taskAp, taskOutcome, taskDetail, log, response,
                   retryVars, extractVars>>

\* main.go:192
Return ==
    /\ pc = "collect"
    /\ recvIdx > Len(aps)
    /\ pc' = "returned"
    /\ UNCHANGED <<endpoint, loopvarShared, invOutcome, aps, retErr, loopAp,
                   taskpc, taskAp, taskOutcome, taskDetail, recvIdx, recvFrom,
                   reconstructedAps, log, response, retryVars, extractVars>>

\* main.go:199-211 (aplist) and 217-232 (metrics).  `written` is how many of
\* the handler's writes the connection accepts.
Respond ==
    /\ pc = "returned"
    /\ \E written \in 0..Max2(Len(reconstructedAps), 1) :
        IF retErr # NoErr
        THEN /\ response' = [status |-> 500, contentType |-> "text/plain",
                             body |-> <<retErr>>, complete |-> TRUE]
             /\ log' = log \cup
                  {LogEntry("WARN", "error fetching access points", <<>>)}
        ELSE IF endpoint = "aplist"
        THEN /\ response' = [status |-> 200,
                             contentType |-> "application/json",
                             body |-> IF written >= 1 THEN reconstructedAps
                                      ELSE <<>>,
                             complete |-> written >= 1]
             /\ log' = IF written >= 1 THEN log
                       ELSE log \cup {LogEntry("WARN",
                                "error encoding access points", <<>>)}
        ELSE LET n == IF written < Len(reconstructedAps) THEN written
                      ELSE Len(reconstructedAps)
             IN  /\ response' = [status |-> 200, contentType |-> "text/plain",
                                 body |-> [k \in 1..n |->
                                            MetricsLine(reconstructedAps[k])],
                                 complete |-> n = Len(reconstructedAps)]
                 /\ log' = IF n = Len(reconstructedAps) THEN log
                           ELSE log \cup {LogEntry("ERROR",
                                    "error writing access points", <<>>)}
    /\ pc' = "done"
    /\ UNCHANGED <<endpoint, loopvarShared, invOutcome, aps, retErr, loopAp,
                   taskpc, taskAp, taskOutcome, taskDetail, recvIdx, recvFrom,
                   reconstructedAps, retryVars, extractVars>>

Next ==
    \/ FetchInventory
    \/ Dispatch
    \/ \E t \in DOMAIN taskpc : TaskRun(t)
    \/ \E t \in DOMAIN taskpc : Receive(t)
    \/ Return
    \/ Respond

Spec == Init /\ [][Next]_vars

----------------------------------------------------------------------------
(* Claims about retryImmediately, checked under SpecRetry *)

\* C3: with max_attempts = m >= 1 and an operation that fails on every
\* invocation, retryImmediately invokes it exactly m times and returns no
\* result, the error of the m-th invocation as a non-nil final error, and a
\* record of m errors.
C3_ExhaustionReturnsLastError ==
    (rpc = "returned" /\ rMax >= 1 /\ \A n \in 1..rMax : FailsAt(n))
        => /\ rOut.kind = "return"
           /\ rOut.invoked = rMax
           /\ rOut.result.nil
           /\ rOut.err # NoErr
           /\ rOut.err = rOracle[rMax].err
           /\ rOut.retried = rMax

\* C4: with max_attempts > k and an operation that fails its first k
\* invocations and then succeeds, retryImmediately returns the result of
\* invocation k+1, a nil final error and k recorded failures, having invoked
\* the operation exactly k+1 times.
C4_ReturnsOnFirstSuccess ==
    rpc = "returned"
        => \A k \in 0..(MaxAttempts - 1) :
              (k < rMax /\ (\A n \in 1..k : FailsAt(n)) /\ SucceedsAt(k + 1))
                  => /\ rOut.kind = "return"
                     /\ rOut.result = rOracle[k + 1].result
                     /\ rOut.err = NoErr
                     /\ rOut.retried = k
                     /\ rOut.invoked = k + 1

\* C4 witness: two failures, then a success on the third of three attempts
C4_Witness ==
    /\ rpc = "returned" /\ rMax = 3
    /\ FailsAt(1) /\ FailsAt(2) /\ SucceedsAt(3)
    /\ rOut.kind = "return" /\ rOut.retried = 2 /\ ~rOut.result.nil

\* C5: invoked with max_attempts < 1, retryImmediately fails fast: it never
\* returns normally to its caller and never invokes the operation.
C5_MisuseFailsFast ==
    (rpc = "returned" /\ rMax < 1)
        => rOut.kind = "panic" /\ rOut.invoked = 0

----------------------------------------------------------------------------
(* Claim about extractApListDataFromScriptText, checked under SpecExtract *)

\* C9: for a payload in which some inner array has no string at index 7 or
\* at index 13, the extractor returns an extraction error and no summaries;
\* it neither crashes its caller nor returns a partial list.
C9_BadFieldIsAnError ==
    (/\ epc = "returned"
     /\ ~eScript.broken
     /\ \E i \in 1..Len(eScript.rows) :
           \/ NotAString(eScript.rows[i], HostNameIndex)
           \/ NotAString(eScript.rows[i], IpAddressIndex))
        => eOut.kind = "return" /\ eOut.err # NoErr /\ eOut.result = <<>>

----------------------------------------------------------------------------
(* Claims about one request, checked under Spec *)

Tasks == DOMAIN taskpc

Completed == pc \in {"returned", "done"} /\ retErr = NoErr

InventoryFailed == invOutcome.kind # "none" /\ invOutcome.allFailed

SummaryOf(entry) ==
    [HostName |-> entry.HostName,
     ActiveConnections |-> entry.ActiveConnections,
     IpAddress |-> entry.IpAddress]

C2_InventoryFailureIsFatal ==
    InventoryFailed
        => /\ pc \in {"returned", "done"}
           /\ retErr # NoErr
           /\ pc = "done" => response.status = 500
           /\ \A t \in Tasks : taskpc[t] = "unborn"

\* C6: under every interleaving, every filled slot of the list joins the
\* summary of an AP with the detail sent by the task dispatched for that
\* same AP, never with the detail of a task dispatched for another AP.
C6_DetailJoinedWithOwnSummary ==
    \A i \in 1..(recvIdx - 1) : recvFrom[i] = i

C8_MetricsTwoLinesPerAp ==
    (pc = "done" /\ endpoint = "metrics")
        => IF retErr # NoErr \/ InventoryFailed
           THEN response.status = 500
           ELSE response.complete
                => /\ response.status = 200
                   /\ Len(response.body) = 2 * Len(reconstructedAps)
                   /\ \A i \in 1..Len(reconstructedAps) :
                        LET ap == reconstructedAps[i]
                            Has(freq, count) ==
                                \E k \in 1..Len(response.body) :
                                    LET l == response.body[k] IN
                                    /\ "frequency" \in DOMAIN l.labels
                                    /\ l.labels.hostname = ap.HostName
                                    /\ l.labels.frequency = freq
                                    /\ l.value = count
                        IN  /\ Has("2.4GHz", ap.Active2_4GHzConnections)
                            /\ Has("5GHz", ap.Active5GHzConnections)

====
